---- MODULE Spec2Model ----
(***************************************************************************)
(* RAW_VIEWER: the LibRaw decode routines (src/decoder.rs and src/main.rs) *)
(* and the viewer shell (LibRawViewerApp in src/main.rs).                  *)
(*                                                                         *)
(* The LibRaw engine is an external C library.  Every value it returns     *)
(* (session handle, status codes, processed-image structs, the optional    *)
(* write through the `err` out-parameter) is an input drawn from a small   *)
(* set.  `calls` records the engine functions a decode has invoked.        *)
(*                                                                         *)
(* Machine words are scaled: c_int and u32 are CIntBits wide, usize is     *)
(* 2*CIntBits wide (32 and 64 in the build), so that the casts and the     *)
(* checked multiplications wrap and overflow in the same cases.            *)
(***************************************************************************)
EXTENDS Integers, Sequences, FiniteSets, TLC

\* ---------------------------------------------------------------- bounds
CIntBits == 4
MaxDim == 2
MaxCode == 1
NumBufs == 2

\* ------------------------------------------------------- program constants
NO_THUMBNAIL == -4
OUTPUT_BPS == 8
CHANNELS == 3

\* ------------------------------------------------------------- machine words
RECURSIVE Pow2(_)
Pow2(n) == IF n = 0 THEN 1 ELSE 2 * Pow2(n - 1)

U32Mod == Pow2(CIntBits)
UsizeMod == Pow2(2 * CIntBits)

\* `x as u32` for a c_int x: two's complement wrap
AsU32(x) == x % U32Mod
\* `x as usize` for a c_int x: sign extension to the pointer width
CIntAsUsize(x) == x % UsizeMod
\* usize::checked_mul on Option<usize>; -1 stands for None
NoneUsize == -1
CheckedMul(a, b) == IF a = NoneUsize \/ a * b >= UsizeMod THEN NoneUsize ELSE a * b

\* -------------------------------------------------------------- engine data
NULL == 0
Codes == (-MaxCode .. MaxCode) \cup {NO_THUMBNAIL}
ErrWrites == [wrote : {TRUE}, code : Codes] \cup [wrote : {FALSE}, code : {0}]

\* the byte the engine holds at offset i behind data pointer p
Mem(p, i) == (p * 16 + i) % 256

\* LibRawProcessedImage as the bindings read it; ptr = NULL is a null result
NullImage == [ptr |-> NULL, width |-> 0, height |-> 0, data |-> NULL, data_size |-> 0]
EngineImages ==
    [ptr : {1}, width : -1 .. MaxDim, height : -1 .. MaxDim,
     data : 0 .. NumBufs, data_size : -1 .. (CHANNELS * MaxDim)]
ImageResults == EngineImages \cup {NullImage}

\* paths handed to decode: bytes of a &str, 0 is an interior NUL
Paths == {<<97>>, <<97, 0, 98>>}
DialogPaths == {p \in Paths : \A i \in 1 .. Len(p) : p[i] # 0}

\* ------------------------------------------------------------ result values
\* Result<(Vec<u8>, u32, u32), String>
Ok(d, w, h) == [ok |-> TRUE, data |-> d, width |-> w, height |-> h,
                msg |-> "", args |-> <<>>]
Err(m, a) == [ok |-> FALSE, data |-> <<>>, width |-> 0, height |-> 0,
              msg |-> m, args |-> a]
NoResult == Err("", <<>>)

\* one engine call: its name, the status it returned (for the extraction
\* calls the value of err afterwards) and whether the engine wrote through
\* the err pointer
Call(f, r, w) == [fn |-> f, ret |-> r, wrote |-> w, buf |-> ""]
\* a read (to_vec) or release (clear_mem) of the processed image b
BufCall(f, b) == [fn |-> f, ret |-> 0, wrote |-> FALSE, buf |-> b]

\* CString::new: fails on the first interior NUL byte
NulPos(p) ==
    IF \E i \in 1 .. Len(p) : p[i] = 0
    THEN (CHOOSE i \in 1 .. Len(p) : p[i] = 0 /\ \A j \in 1 .. i - 1 : p[j] # 0) - 1
    ELSE -1
CStringNew(p) ==
    IF NulPos(p) >= 0
    THEN Err("nul byte found in provided data at position: ", <<NulPos(p)>>)
    ELSE Ok(p \o <<0>>, 0, 0)

\* slice::from_raw_parts(data, n).to_vec()
ToVec(p, n) == [i \in 1 .. n |-> Mem(p, i - 1)]

\* extract_image_data accepting any buffer at least as large as expected
extract_image_data_AtLeast(image) ==
    IF image.data = NULL
    THEN Err("Processed image data pointer is null", <<>>)
    ELSE LET width == AsU32(image.width)
             height == AsU32(image.height)
             data_size == CIntAsUsize(image.data_size)
             expected_size == CheckedMul(CheckedMul(width, height), CHANNELS)
         IN  IF expected_size = NoneUsize
             THEN Err("Image dimensions too large", <<>>)
             ELSE IF data_size < expected_size
             THEN Err("Processed image data size does not match expected size",
                      <<data_size, expected_size>>)
             ELSE Ok(ToVec(image.data, data_size), width, height)

\* extract_image_data without the null-pointer test
extract_image_data_NoNullCheck(image) ==
    LET width == AsU32(image.width)
        height == AsU32(image.height)
        data_size == CIntAsUsize(image.data_size)
        expected_size == CheckedMul(CheckedMul(width, height), CHANNELS)
    IN  IF expected_size = NoneUsize
        THEN Err("Image dimensions too large", <<>>)
        ELSE IF data_size # expected_size
        THEN Err("Processed image data size does not match expected size",
                 <<data_size, expected_size>>)
        ELSE Ok(ToVec(image.data, data_size), width, height)

\* decoder.rs extract_image_data
extract_image_data(image) ==
    IF image.data = NULL
    THEN Err("Processed image data pointer is null", <<>>)
    ELSE LET width == AsU32(image.width)
             height == AsU32(image.height)
             data_size == CIntAsUsize(image.data_size)
             expected_size == CheckedMul(CheckedMul(width, height), CHANNELS)
         IN  IF expected_size = NoneUsize
             THEN Err("Image dimensions too large", <<>>)
             ELSE IF data_size # expected_size
             THEN Err("Processed image data size does not match expected size",
                      <<data_size, expected_size>>)
             ELSE Ok(ToVec(image.data, data_size), width, height)

VARIABLES
    pc,               \* position of the running routine, "idle" when none
    path,             \* decode's argument
    raw,              \* session handle returned by libraw_init
    err,              \* the `err` out-parameter local
    processed_thumb,  \* result of libraw_dcraw_make_mem_thumb
    processed_image,  \* result of libraw_dcraw_make_mem_image
    res,              \* decoder.rs `result` before the final close
    result,           \* value returned by decode
    calls,            \* engine functions invoked by the current decode
    image_data,       \* LibRawViewerApp.image_data
    texture,          \* LibRawViewerApp.texture
    prev,             \* app state when the current load began
    lastOk,           \* result of the most recent successful decode of a load
    encoded,          \* what the current save handed to the encoder
    saveResult        \* what save_png returned

locals == <<path, raw, err, processed_thumb, processed_image, res, result, calls>>
shell == <<image_data, texture>>
ghost == <<prev, lastOk, encoded, saveResult>>
vars == <<pc, path, raw, err, processed_thumb, processed_image, res, result, calls,
          image_data, texture, prev, lastOk, encoded, saveResult>>

NoImageData == [present |-> FALSE, data |-> <<>>, width |-> 0, height |-> 0]
NoTexture == [present |-> FALSE, size |-> <<0, 0>>, pixels |-> <<>>]
NoPrev == [image_data |-> NoImageData, texture |-> NoTexture]

Init ==
    /\ pc = "idle"
    /\ path = <<>>
    /\ raw = NULL
    /\ err = 0
    /\ processed_thumb = NullImage
    /\ processed_image = NullImage
    /\ res = NoResult
    /\ result = NoResult
    /\ calls = <<>>
    /\ image_data = NoImageData
    /\ texture = NoTexture
    /\ prev = NoPrev
    /\ lastOk = NoImageData
    /\ encoded = NoImageData
    /\ saveResult = ""

\* a routine returns: its locals are dropped
DropLocals ==
    /\ path' = <<>>
    /\ raw' = NULL
    /\ err' = 0
    /\ processed_thumb' = NullImage
    /\ processed_image' = NullImage
    /\ res' = NoResult
    /\ result' = NoResult
    /\ calls' = <<>>

\* ===================================================== decoder.rs decode_arw_file
\* a caller invokes decoder::decode_arw_file(path)
DecodeCall ==
    /\ pc = "idle"
    /\ \E p \in Paths : path' = p
    /\ pc' = "d_init"
    /\ UNCHANGED <<raw, err, processed_thumb, processed_image, res, result, calls>>
    /\ UNCHANGED <<shell, ghost>>

\* an init step that also closes the (null) session when init failed
D_Init_CloseOnNull ==
    /\ pc = "d_init"
    /\ \E h \in {NULL, 1} :
         /\ raw' = h
         /\ IF h = NULL
            THEN /\ calls' = calls \o <<Call("libraw_init", h, FALSE),
                                       Call("libraw_close", 0, FALSE)>>
                 /\ result' = Err("Failed to initialize LibRaw", <<>>)
                 /\ pc' = "d_ret"
            ELSE /\ calls' = Append(calls, Call("libraw_init", h, FALSE))
                 /\ result' = result
                 /\ pc' = "d_cstring"
    /\ UNCHANGED <<path, err, processed_thumb, processed_image, res>>
    /\ UNCHANGED <<shell, ghost>>

\* lines 66-69
D_Init ==
    /\ pc = "d_init"
    /\ \E h \in {NULL, 1} :
         /\ raw' = h
         /\ calls' = Append(calls, Call("libraw_init", h, FALSE))
         /\ IF h = NULL
            THEN /\ result' = Err("Failed to initialize LibRaw", <<>>)
                 /\ pc' = "d_ret"
            ELSE /\ result' = result
                 /\ pc' = "d_cstring"
    /\ UNCHANGED <<path, err, processed_thumb, processed_image, res>>
    /\ UNCHANGED <<shell, ghost>>

\* line 70: `?` returns the conversion error at once
D_CString ==
    /\ pc = "d_cstring"
    /\ IF CStringNew(path).ok
       THEN /\ pc' = "d_open"
            /\ result' = result
       ELSE /\ pc' = "d_ret"
            /\ result' = Err(CStringNew(path).msg, CStringNew(path).args)
    /\ UNCHANGED <<path, raw, err, processed_thumb, processed_image, res, calls>>
    /\ UNCHANGED <<shell, ghost>>

\* a status step whose failure branch closes the session but does not return
D_StatusStep_NoReturn(here, fname, next) ==
    /\ pc = here
    /\ \E ret \in Codes :
         IF ret # 0
         THEN /\ calls' = calls \o <<Call(fname, ret, FALSE), Call("libraw_close", 0, FALSE)>>
              /\ result' = Err(fname \o " failed with error code ", <<ret>>)
              /\ pc' = next
         ELSE /\ calls' = Append(calls, Call(fname, ret, FALSE))
              /\ result' = result
              /\ pc' = next
    /\ UNCHANGED <<path, raw, err, processed_thumb, processed_image, res>>
    /\ UNCHANGED <<shell, ghost>>

\* a status-returning engine step: on nonzero status close and fail
D_StatusStep(here, fname, next) ==
    /\ pc = here
    /\ \E ret \in Codes :
         IF ret # 0
         THEN /\ calls' = calls \o <<Call(fname, ret, FALSE), Call("libraw_close", 0, FALSE)>>
              /\ result' = Err(fname \o " failed with error code ", <<ret>>)
              /\ pc' = "d_ret"
         ELSE /\ calls' = Append(calls, Call(fname, ret, FALSE))
              /\ result' = result
              /\ pc' = next
    /\ UNCHANGED <<path, raw, err, processed_thumb, processed_image, res>>
    /\ UNCHANGED <<shell, ghost>>

\* lines 71-75
D_Open == D_StatusStep("d_open", "libraw_open_file", "d_unpack")

\* lines 76-80
D_Unpack == D_StatusStep("d_unpack", "libraw_unpack", "d_setbps")

\* line 82
D_SetBps ==
    /\ pc = "d_setbps"
    /\ calls' = Append(calls, Call("libraw_set_output_bps", OUTPUT_BPS, FALSE))
    /\ pc' = "d_process"
    /\ UNCHANGED <<path, raw, err, processed_thumb, processed_image, res, result>>
    /\ UNCHANGED <<shell, ghost>>

\* lines 83-87
D_Process == D_StatusStep("d_process", "libraw_dcraw_process", "d_thumb")

\* lines 88-91 and 104-108: err starts at 0, the engine may write it
D_Thumb ==
    /\ pc = "d_thumb"
    /\ \E img \in ImageResults, w \in ErrWrites :
         LET e == IF w.wrote THEN w.code ELSE 0
             c == Call("libraw_dcraw_make_mem_thumb", e, w.wrote)
         IN  /\ processed_thumb' = img
             /\ err' = e
             /\ IF img.ptr = NULL
                THEN IF e = NO_THUMBNAIL
                     THEN /\ calls' = Append(calls, c)
                          /\ result' = result
                          /\ pc' = "d_full"
                     ELSE /\ calls' = calls \o <<c, Call("libraw_close", 0, FALSE)>>
                          /\ result' = Err("Thumbnail extraction failed with error code ", <<e>>)
                          /\ pc' = "d_ret"
                ELSE /\ calls' = Append(calls, c)
                     /\ result' = result
                     /\ pc' = "d_thumb_extract"
    /\ UNCHANGED <<path, raw, processed_image, res>>
    /\ UNCHANGED <<shell, ghost>>

\* a thumbnail step that releases the buffer before copying out of it
D_ThumbExtract_ClearFirst ==
    /\ pc = "d_thumb_extract"
    /\ res' = extract_image_data(processed_thumb)
    /\ calls' = calls \o <<BufCall("libraw_dcraw_clear_mem", "thumb")>> \o
         (IF extract_image_data(processed_thumb).ok
          THEN <<BufCall("to_vec", "thumb")>> ELSE <<>>)
    /\ pc' = "d_close"
    /\ UNCHANGED <<path, raw, err, processed_thumb, processed_image, result>>
    /\ UNCHANGED <<shell, ghost>>

\* lines 109-111: extract, then release the thumbnail whatever the outcome
D_ThumbExtract ==
    /\ pc = "d_thumb_extract"
    /\ res' = extract_image_data(processed_thumb)
    /\ calls' = calls \o
         (IF extract_image_data(processed_thumb).ok
          THEN <<BufCall("to_vec", "thumb")>> ELSE <<>>)
         \o <<BufCall("libraw_dcraw_clear_mem", "thumb")>>
    /\ pc' = "d_close"
    /\ UNCHANGED <<path, raw, err, processed_thumb, processed_image, result>>
    /\ UNCHANGED <<shell, ghost>>

\* a fallback step that tests only the pointer, not err
D_Full_NullOnly ==
    /\ pc = "d_full"
    /\ \E img \in ImageResults, w \in ErrWrites :
         LET e == IF w.wrote THEN w.code ELSE err
             c == Call("libraw_dcraw_make_mem_image", e, w.wrote)
         IN  /\ processed_image' = img
             /\ err' = e
             /\ IF img.ptr = NULL
                THEN /\ calls' = calls \o <<c, Call("libraw_close", 0, FALSE)>>
                     /\ result' = Err("Full image extraction failed with error code ", <<e>>)
                     /\ pc' = "d_ret"
                ELSE /\ calls' = Append(calls, c)
                     /\ result' = result
                     /\ pc' = "d_full_extract"
    /\ UNCHANGED <<path, raw, processed_thumb, res>>
    /\ UNCHANGED <<shell, ghost>>

\* lines 94-98: the same `err` local is passed again, still holding -4
D_Full ==
    /\ pc = "d_full"
    /\ \E img \in ImageResults, w \in ErrWrites :
         LET e == IF w.wrote THEN w.code ELSE err
             c == Call("libraw_dcraw_make_mem_image", e, w.wrote)
         IN  /\ processed_image' = img
             /\ err' = e
             /\ IF img.ptr = NULL \/ e # 0
                THEN /\ calls' = calls \o <<c, Call("libraw_close", 0, FALSE)>>
                     /\ result' = Err("Full image extraction failed with error code ", <<e>>)
                     /\ pc' = "d_ret"
                ELSE /\ calls' = Append(calls, c)
                     /\ result' = result
                     /\ pc' = "d_full_extract"
    /\ UNCHANGED <<path, raw, processed_thumb, res>>
    /\ UNCHANGED <<shell, ghost>>

\* lines 99-103: and_then runs the release only on Ok
D_FullExtract ==
    /\ pc = "d_full_extract"
    /\ res' = extract_image_data(processed_image)
    /\ calls' = calls \o
         (IF extract_image_data(processed_image).ok
          THEN <<BufCall("to_vec", "image"), BufCall("libraw_dcraw_clear_mem", "image")>>
          ELSE <<>>)
    /\ pc' = "d_close"
    /\ UNCHANGED <<path, raw, err, processed_thumb, processed_image, result>>
    /\ UNCHANGED <<shell, ghost>>

\* lines 113-114
D_Close ==
    /\ pc = "d_close"
    /\ calls' = Append(calls, Call("libraw_close", 0, FALSE))
    /\ result' = res
    /\ pc' = "d_ret"
    /\ UNCHANGED <<path, raw, err, processed_thumb, processed_image, res>>
    /\ UNCHANGED <<shell, ghost>>

\* decode has returned `result` to its caller
D_Return ==
    /\ pc = "d_ret"
    /\ pc' = "idle"
    /\ DropLocals
    /\ UNCHANGED <<shell, ghost>>

\* ======================================================= main.rs decode_arw_file
\* update lines 157-161: the Load button, a picked file, load_arw calls decode
Load ==
    /\ pc = "idle"
    /\ \E p \in DialogPaths : path' = p
    /\ prev' = [image_data |-> image_data, texture |-> texture]
    /\ pc' = "m_init"
    /\ UNCHANGED <<raw, err, processed_thumb, processed_image, res, result, calls>>
    /\ UNCHANGED <<shell, lastOk, encoded, saveResult>>

\* lines 44-47
M_Init ==
    /\ pc = "m_init"
    /\ \E h \in {NULL, 1} :
         /\ raw' = h
         /\ calls' = Append(calls, Call("libraw_init", h, FALSE))
         /\ IF h = NULL
            THEN /\ result' = Err("Failed to initialize LibRaw", <<>>)
                 /\ pc' = "m_ret"
            ELSE /\ result' = result
                 /\ pc' = "m_cstring"
    /\ UNCHANGED <<path, err, processed_thumb, processed_image, res>>
    /\ UNCHANGED <<shell, ghost>>

\* line 48
M_CString ==
    /\ pc = "m_cstring"
    /\ IF CStringNew(path).ok
       THEN /\ pc' = "m_open"
            /\ result' = result
       ELSE /\ pc' = "m_ret"
            /\ result' = Err(CStringNew(path).msg, CStringNew(path).args)
    /\ UNCHANGED <<path, raw, err, processed_thumb, processed_image, res, calls>>
    /\ UNCHANGED <<shell, ghost>>

M_StatusStep(here, fname, next) ==
    /\ pc = here
    /\ \E ret \in Codes :
         IF ret # 0
         THEN /\ calls' = calls \o <<Call(fname, ret, FALSE), Call("libraw_close", 0, FALSE)>>
              /\ result' = Err(fname \o " failed with error code ", <<ret>>)
              /\ pc' = "m_ret"
         ELSE /\ calls' = Append(calls, Call(fname, ret, FALSE))
              /\ result' = result
              /\ pc' = next
    /\ UNCHANGED <<path, raw, err, processed_thumb, processed_image, res>>
    /\ UNCHANGED <<shell, ghost>>

\* lines 49-53
M_Open == M_StatusStep("m_open", "libraw_open_file", "m_unpack")

\* lines 54-58
M_Unpack == M_StatusStep("m_unpack", "libraw_unpack", "m_process")

\* lines 60-64
M_Process == M_StatusStep("m_process", "libraw_dcraw_process", "m_full")

\* lines 65-70
M_Full ==
    /\ pc = "m_full"
    /\ \E img \in ImageResults, w \in ErrWrites :
         LET e == IF w.wrote THEN w.code ELSE 0
             c == Call("libraw_dcraw_make_mem_image", e, w.wrote)
         IN  /\ processed_image' = img
             /\ err' = e
             /\ IF img.ptr = NULL \/ e # 0
                THEN /\ calls' = calls \o <<c, Call("libraw_close", 0, FALSE)>>
                     /\ result' = Err("libraw_dcraw_make_mem_image failed with error code ", <<e>>)
                     /\ pc' = "m_ret"
                ELSE /\ calls' = Append(calls, c)
                     /\ result' = result
                     /\ pc' = "m_validate"
    /\ UNCHANGED <<path, raw, processed_thumb, res>>
    /\ UNCHANGED <<shell, ghost>>

\* a validation that accepts any buffer at least as large as expected
M_ValidateOutcome_AtLeast(image) ==
    LET clear == BufCall("libraw_dcraw_clear_mem", "image")
        close == Call("libraw_close", 0, FALSE)
        width == AsU32(image.width)
        height == AsU32(image.height)
        data_size == CIntAsUsize(image.data_size)
        expected_size == CheckedMul(CheckedMul(width, height), CHANNELS)
    IN  IF image.data = NULL
        THEN [calls |-> <<clear, close>>,
              result |-> Err("Processed image data pointer is null", <<>>)]
        ELSE IF expected_size = NoneUsize
        THEN [calls |-> <<>>,
              result |-> Err("Image dimensions too large", <<>>)]
        ELSE IF data_size < expected_size
        THEN [calls |-> <<clear, close>>,
              result |-> Err("Processed image data size does not match expected size",
                             <<data_size, expected_size>>)]
        ELSE [calls |-> <<BufCall("to_vec", "image"), clear, close>>,
              result |-> Ok(ToVec(image.data, data_size), width, height)]

\* lines 71-97: the calls made and the value returned for a processed image
M_ValidateOutcome(image) ==
    LET clear == BufCall("libraw_dcraw_clear_mem", "image")
        close == Call("libraw_close", 0, FALSE)
        width == AsU32(image.width)
        height == AsU32(image.height)
        data_size == CIntAsUsize(image.data_size)
        expected_size == CheckedMul(CheckedMul(width, height), CHANNELS)
    IN  IF image.data = NULL
        THEN [calls |-> <<clear, close>>,
              result |-> Err("Processed image data pointer is null", <<>>)]
        ELSE IF expected_size = NoneUsize
        THEN [calls |-> <<>>,
              result |-> Err("Image dimensions too large", <<>>)]
        ELSE IF data_size # expected_size
        THEN [calls |-> <<clear, close>>,
              result |-> Err("Processed image data size does not match expected size",
                             <<data_size, expected_size>>)]
        ELSE [calls |-> <<BufCall("to_vec", "image"), clear, close>>,
              result |-> Ok(ToVec(image.data, data_size), width, height)]

M_Validate ==
    /\ pc = "m_validate"
    /\ calls' = calls \o M_ValidateOutcome(processed_image).calls
    /\ result' = M_ValidateOutcome(processed_image).result
    /\ pc' = "m_ret"
    /\ UNCHANGED <<path, raw, err, processed_thumb, processed_image, res>>
    /\ UNCHANGED <<shell, ghost>>

\* ================================================================ LibRawViewerApp
\* data.chunks(3).map(|chunk| Color32::from_rgb(chunk[0], chunk[1], chunk[2]))
Pixels(data) == [i \in 1 .. (Len(data) \div 3) |-> <<data[3 * i - 2], data[3 * i - 1], data[3 * i]>>]

\* an Ok arm that retains the dimensions in the wrong order
LoadOk_Swapped(r) ==
    [image_data |-> [present |-> TRUE, data |-> r.data, width |-> r.height, height |-> r.width],
     texture |-> [present |-> TRUE, size |-> <<r.width, r.height>>, pixels |-> Pixels(r.data)]]

\* the Ok arm of load_arw: new image_data and texture
LoadOk(r) ==
    [image_data |-> [present |-> TRUE, data |-> r.data, width |-> r.width, height |-> r.height],
     texture |-> [present |-> TRUE, size |-> <<r.width, r.height>>, pixels |-> Pixels(r.data)]]

\* an Err arm that resets the app to the empty state
LoadErr_Reset(img, tex) == [image_data |-> NoImageData, texture |-> NoTexture]

\* the Err arm of load_arw: eprintln only
LoadErr(img, tex) == [image_data |-> img, texture |-> tex]

\* load_arw lines 119-139: match on what decode returned
LoadMatch ==
    /\ pc = "m_ret"
    /\ IF result.ok
       THEN IF Len(result.data) % 3 # 0
            THEN /\ pc' = "panic"
                 /\ image_data' = [present |-> TRUE, data |-> result.data,
                                   width |-> result.width, height |-> result.height]
                 /\ UNCHANGED texture
            ELSE /\ pc' = "l_done"
                 /\ image_data' = LoadOk(result).image_data
                 /\ texture' = LoadOk(result).texture
       ELSE /\ pc' = "l_done"
            /\ image_data' = LoadErr(image_data, texture).image_data
            /\ texture' = LoadErr(image_data, texture).texture
    /\ lastOk' = IF result.ok
                 THEN [present |-> TRUE, data |-> result.data,
                       width |-> result.width, height |-> result.height]
                 ELSE lastOk
    /\ UNCHANGED locals
    /\ UNCHANGED <<prev, encoded, saveResult>>

\* load_arw returns to update
LoadReturn ==
    /\ pc = "l_done"
    /\ pc' = "idle"
    /\ DropLocals
    /\ prev' = NoPrev
    /\ UNCHANGED <<shell, lastOk, encoded, saveResult>>

\* ImageBuffer::from_raw(width, height, buf): None unless 3*w*h bytes fit in buf
ImageBufferFromRaw(w, h, buf) ==
    LET n == CheckedMul(CheckedMul(CHANNELS, w), h)
    IN  IF n = NoneUsize \/ n > Len(buf)
        THEN NoImageData
        ELSE [present |-> TRUE, data |-> buf, width |-> w, height |-> h]

\* a save_png that encodes an empty image when none is loaded
save_png_EncodeEmpty(img, encOk) ==
    LET buffer == ImageBufferFromRaw(img.width, img.height, img.data)
    IN  IF ~buffer.present
        THEN [encoded |-> NoImageData, ret |-> "Failed to create image buffer"]
        ELSE [encoded |-> buffer, ret |-> IF encOk THEN "Ok" ELSE "encoder error"]

\* save_png lines 142-151; encOk is the outcome of buffer.save(path)
save_png(img, encOk) ==
    IF img.present
    THEN LET buffer == ImageBufferFromRaw(img.width, img.height, img.data)
         IN  IF ~buffer.present
             THEN [encoded |-> NoImageData, ret |-> "Failed to create image buffer"]
             ELSE [encoded |-> buffer, ret |-> IF encOk THEN "Ok" ELSE "encoder error"]
    ELSE [encoded |-> NoImageData, ret |-> "No image loaded"]

\* update lines 166-174: the Save button with a chosen destination
Save ==
    /\ pc = "idle"
    /\ \E encOk \in BOOLEAN :
         /\ encoded' = save_png(image_data, encOk).encoded
         /\ saveResult' = save_png(image_data, encOk).ret
    /\ pc' = "s_done"
    /\ UNCHANGED locals
    /\ UNCHANGED <<shell, prev, lastOk>>

\* save_png has returned and its outcome was printed
SaveReturn ==
    /\ pc = "s_done"
    /\ pc' = "idle"
    /\ encoded' = NoImageData
    /\ saveResult' = ""
    /\ UNCHANGED locals
    /\ UNCHANGED <<shell, prev, lastOk>>

Next ==
    \/ DecodeCall
    \/ D_Init
    \/ D_CString
    \/ D_Open
    \/ D_Unpack
    \/ D_SetBps
    \/ D_Process
    \/ D_Thumb
    \/ D_ThumbExtract
    \/ D_Full
    \/ D_FullExtract
    \/ D_Close
    \/ D_Return
    \/ Load
    \/ M_Init
    \/ M_CString
    \/ M_Open
    \/ M_Unpack
    \/ M_Process
    \/ M_Full
    \/ M_Validate
    \/ LoadMatch
    \/ LoadReturn
    \/ Save
    \/ SaveReturn

Spec == Init /\ [][Next]_vars
\* ===================================================================== properties
DecoderPcs == {"d_init", "d_cstring", "d_open", "d_unpack", "d_setbps", "d_process",
               "d_thumb", "d_thumb_extract", "d_full", "d_full_extract", "d_close", "d_ret"}
LoadPcs == {"m_init", "m_cstring", "m_open", "m_unpack", "m_process", "m_full",
            "m_validate", "m_ret"}

CountCalls(f) == Cardinality({i \in DOMAIN calls : calls[i].fn = f})
CountCallsOn(f, b) == Cardinality({i \in DOMAIN calls : calls[i].fn = f /\ calls[i].buf = b})
Called(f) == \E i \in DOMAIN calls : calls[i].fn = f
\* the thumbnail call reported error code e
ThumbReported(e) ==
    \E i \in DOMAIN calls : calls[i].fn = "libraw_dcraw_make_mem_thumb" /\ calls[i].ret = e
\* the image that went through validation in this decode, if any
ThumbExtracted == processed_thumb.ptr # NULL
FullExtracted == processed_image.ptr # NULL /\ err = 0
\* data pointer null, or reported size different from width * height * 3
Invalid(img) ==
    \/ img.data = NULL
    \/ CIntAsUsize(img.data_size) # AsU32(img.width) * AsU32(img.height) * 3
ValidationMsgs == {"Processed image data pointer is null",
                   "Image dimensions too large",
                   "Processed image data size does not match expected size"}
StatusSteps == {"libraw_open_file", "libraw_unpack", "libraw_dcraw_process"}

\* C1: whenever decoder.rs decode returns after libraw_init gave a non-null
\* session, libraw_close has been called on it exactly once.
C1_SessionClosedOnce ==
    (pc = "d_ret" /\ raw # NULL) => CountCalls("libraw_close") = 1

\* C2: whenever decoder.rs decode returns, every non-null processed image the
\* engine handed out (thumbnail or full image) has been released with
\* libraw_dcraw_clear_mem exactly once.
C2_BufferReleasedOnce ==
    pc = "d_ret" =>
        /\ CountCallsOn("libraw_dcraw_clear_mem", "thumb")
             = (IF processed_thumb.ptr # NULL THEN 1 ELSE 0)
        /\ CountCallsOn("libraw_dcraw_clear_mem", "image")
             = (IF processed_image.ptr # NULL THEN 1 ELSE 0)

\* C3: a successful decode returns a buffer of exactly width * height * 3
\* bytes, on the thumbnail path and on the fallback path.
C3_BufferLength ==
    (pc = "d_ret" /\ result.ok) =>
        Len(result.data) = result.width * result.height * 3
C3_Witness ==
    /\ pc = "d_ret"
    /\ result.ok
    /\ Called("libraw_dcraw_make_mem_image")
    /\ Len(result.data) > 0

\* C4: once open, unpack or process reported a nonzero status, no later
\* pipeline step is invoked (only libraw_close follows), and decode returns a
\* failure naming that step with the engine's code.
C4_FirstFailingStep ==
    pc \in DecoderPcs =>
        \A i \in DOMAIN calls :
            (calls[i].fn \in StatusSteps /\ calls[i].ret # 0) =>
                /\ \A j \in DOMAIN calls : j > i => calls[j].fn = "libraw_close"
                /\ \A j \in DOMAIN calls :
                     (j < i /\ calls[j].fn \in StatusSteps) => calls[j].ret = 0
                /\ pc = "d_ret"
                /\ ~result.ok
                /\ result.msg = calls[i].fn \o " failed with error code "
                /\ result.args = <<calls[i].ret>>
C4_Witness ==
    /\ pc = "d_ret"
    /\ \E i \in DOMAIN calls : calls[i].fn = "libraw_unpack" /\ calls[i].ret = NO_THUMBNAIL

\* C5: when thumbnail extraction reported the no-thumbnail code, decode has
\* invoked full-image extraction and returns what validating that image
\* gives whenever the engine produced one without reporting an error; the
\* code -4 left by the thumbnail step is never returned as the error.
C5_FallbackOutcome ==
    (pc = "d_ret" /\ ThumbReported(NO_THUMBNAIL)) =>
        /\ Called("libraw_dcraw_make_mem_image")
        /\ \A i \in DOMAIN calls :
             (/\ calls[i].fn = "libraw_dcraw_make_mem_image"
              /\ processed_image.ptr # NULL
              /\ (calls[i].wrote => calls[i].ret = 0))
             => result = extract_image_data(processed_image)
        /\ ~ (/\ ~result.ok
              /\ processed_image.ptr # NULL
              /\ result.args = <<NO_THUMBNAIL>>
              /\ \A i \in DOMAIN calls :
                   calls[i].fn = "libraw_dcraw_make_mem_image" => ~calls[i].wrote)

\* C6: full-image extraction is called only after the thumbnail step reported
\* the no-thumbnail code; after any other thumbnail error decode returns the
\* thumbnail failure at once without calling it; it is not called after a
\* successful thumbnail extraction.
C6_FullOnlyAfterSentinel ==
    pc \in DecoderPcs =>
        /\ Called("libraw_dcraw_make_mem_image") => ThumbReported(NO_THUMBNAIL)
        /\ \A e \in Codes \ {0, NO_THUMBNAIL} :
             (pc \notin {"d_thumb"} /\ ThumbReported(e)) =>
                /\ ~Called("libraw_dcraw_make_mem_image")
                /\ pc = "d_ret"
                /\ result = Err("Thumbnail extraction failed with error code ", <<e>>)
        /\ (ThumbReported(0) /\ processed_thumb.ptr # NULL)
             => ~Called("libraw_dcraw_make_mem_image")

\* C7: a decode whose thumbnail extraction reported a nonzero code other than
\* the sentinel fails, and no decode returns success out of a thumbnail
\* extraction that reported a nonzero code.
C7_ThumbErrorIsFailure ==
    pc = "d_ret" =>
        /\ \A e \in Codes \ {0, NO_THUMBNAIL} : ThumbReported(e) => ~result.ok
        /\ \A e \in Codes \ {0} :
             (ThumbReported(e) /\ ~Called("libraw_dcraw_make_mem_image")) => ~result.ok

\* C8: when the image that was extracted (thumbnail or fallback) has a null
\* data pointer or a data size other than width * height * 3, decode returns
\* a validation failure carrying no pixel data.
C8_InvalidImageRejected ==
    pc = "d_ret" =>
        /\ (ThumbExtracted /\ Invalid(processed_thumb)) =>
             (~result.ok /\ result.data = <<>> /\ result.msg \in ValidationMsgs)
        /\ (FullExtracted /\ Invalid(processed_image)) =>
             (~result.ok /\ result.data = <<>> /\ result.msg \in ValidationMsgs)
C8_Witness ==
    /\ pc = "d_ret"
    /\ FullExtracted
    /\ processed_image.data # NULL
    /\ processed_image.width > 0
    /\ processed_image.height > 0
    /\ processed_image.data_size > 0
    /\ Invalid(processed_image)

\* C9: while a load is decoding, and after a load whose decode failed, the
\* app's retained image and texture are those from before the load.
C9_FailedLoadKeepsState ==
    (pc \in LoadPcs \/ (pc = "l_done" /\ ~result.ok)) =>
        /\ image_data = prev.image_data
        /\ texture = prev.texture
C9_Witness ==
    /\ pc = "l_done"
    /\ ~result.ok
    /\ image_data.present
    /\ texture.present
    /\ Len(image_data.data) > 0

\* C10: a save hands the encoder exactly the buffer, width and height of the
\* most recent successful decode, and calls no encoder before any success.
C10_SaveUsesLastDecode ==
    pc = "s_done" =>
        /\ lastOk.present => encoded = lastOk
        /\ ~lastOk.present => ~encoded.present
C10_Witness ==
    /\ pc = "s_done"
    /\ encoded.present
    /\ encoded.width # encoded.height
    /\ Len(encoded.data) > 0
\* the engine steps of decode, in the order the pipeline prescribes
PipelineOrder == <<"libraw_init", "libraw_open_file", "libraw_unpack",
                   "libraw_set_output_bps", "libraw_dcraw_process",
                   "libraw_dcraw_make_mem_thumb">>
PipelineFns == {PipelineOrder[k] : k \in DOMAIN PipelineOrder}
\* step k of the pipeline completed successfully at position i of calls
StepSucceeded(i) ==
    CASE calls[i].fn = "libraw_init" -> calls[i].ret # NULL
      [] calls[i].fn \in StatusSteps -> calls[i].ret = 0
      [] OTHER -> TRUE

\* C11: in one decoder.rs decode the calls init, open, unpack, set-output-bps,
\* process, thumbnail extraction occur in that order, each at most once and
\* only after every earlier one succeeded; after a null init nothing else
\* (not even close) is called.
C11_PipelineOrder ==
    pc \in DecoderPcs =>
        /\ \A k \in DOMAIN PipelineOrder : CountCalls(PipelineOrder[k]) <= 1
        /\ \A i \in DOMAIN calls :
             calls[i].fn \in PipelineFns =>
                /\ i <= Len(PipelineOrder)
                /\ calls[i].fn = PipelineOrder[i]
                /\ \A j \in 1 .. i - 1 : StepSucceeded(j)
        /\ (Len(calls) >= 1 /\ calls[1].ret = NULL) => Len(calls) = 1
        /\ (Len(calls) >= 1) => calls[1].fn = "libraw_init"
C11_Witness ==
    /\ pc = "d_thumb_extract"
    /\ Len(calls) = Len(PipelineOrder)
    /\ \A k \in DOMAIN PipelineOrder : calls[k].fn = PipelineOrder[k]

\* C12: in every decode (decoder.rs and the one in main.rs) the process step
\* is invoked only after libraw_set_output_bps(raw, 8) was called in that
\* decode, itself after a successful unpack.
C12_BpsBeforeProcess ==
    pc \in (DecoderPcs \cup LoadPcs) =>
        \A i \in DOMAIN calls :
            calls[i].fn = "libraw_dcraw_process" =>
                \E j \in 1 .. i - 1 :
                    /\ calls[j].fn = "libraw_set_output_bps"
                    /\ calls[j].ret = 8
                    /\ \E k \in 1 .. j - 1 :
                         calls[k].fn = "libraw_unpack" /\ calls[k].ret = 0

\* C13: a processed image is never copied from after it was released, and
\* neither copied from nor released after the session was closed: copy, then
\* libraw_dcraw_clear_mem, then libraw_close.
C13_CopyReleaseCloseOrder ==
    pc \in (DecoderPcs \cup LoadPcs) =>
        \A i, j \in DOMAIN calls :
            i < j =>
                /\ ~ (/\ calls[i].fn = "libraw_dcraw_clear_mem"
                      /\ calls[j].fn = "to_vec"
                      /\ calls[i].buf = calls[j].buf)
                /\ ~ (/\ calls[i].fn = "libraw_close"
                      /\ calls[j].fn \in {"to_vec", "libraw_dcraw_clear_mem"})
C13_Witness ==
    /\ pc = "d_ret"
    /\ result.ok
    /\ Len(result.data) > 0
    /\ \E i, j, k \in DOMAIN calls :
         /\ i < j
         /\ j < k
         /\ calls[i].fn = "to_vec"
         /\ calls[j].fn = "libraw_dcraw_clear_mem"
         /\ calls[k].fn = "libraw_close"

\* C14: when the fallback call returned a null image or left a nonzero error
\* code, decode returns the full-extraction failure with that code, is never
\* successful, and calls nothing but libraw_close afterwards.
C14_FullFailureIsHard ==
    pc \in DecoderPcs =>
        \A i \in DOMAIN calls :
            (/\ calls[i].fn = "libraw_dcraw_make_mem_image"
             /\ (processed_image.ptr = NULL \/ calls[i].ret # 0)) =>
                /\ pc = "d_ret"
                /\ ~result.ok
                /\ result = Err("Full image extraction failed with error code ",
                                <<calls[i].ret>>)
                /\ \A j \in DOMAIN calls : j > i => calls[j].fn = "libraw_close"
C14_Witness ==
    /\ pc = "d_ret"
    /\ processed_image.ptr # NULL
    /\ \E i \in DOMAIN calls :
         /\ calls[i].fn = "libraw_dcraw_make_mem_image"
         /\ calls[i].wrote
         /\ calls[i].ret = 1
\* C15: whenever main.rs decode returns after a non-null init, libraw_close
\* was called exactly once, and a non-null image that full-image extraction
\* returned without error was released exactly once.
C15_MainDecodeReleases ==
    pc = "m_ret" =>
        /\ raw # NULL => CountCalls("libraw_close") = 1
        /\ (processed_image.ptr # NULL /\ err = 0)
             => CountCallsOn("libraw_dcraw_clear_mem", "image") = 1

\* C16: in every shell state the texture is present exactly when an image is
\* retained, the retained buffer has width * height * 3 bytes, and the
\* texture has the same dimensions and the pixels of that buffer.
C16_TextureMatchesImage ==
    /\ texture.present = image_data.present
    /\ image_data.present =>
         /\ Len(image_data.data) = image_data.width * image_data.height * 3
         /\ texture.size = <<image_data.width, image_data.height>>
         /\ Len(texture.pixels) = image_data.width * image_data.height
         /\ \A i \in DOMAIN texture.pixels :
              texture.pixels[i] = <<image_data.data[3 * i - 2],
                                    image_data.data[3 * i - 1],
                                    image_data.data[3 * i]>>
C16_Witness ==
    /\ pc = "idle"
    /\ image_data.present
    /\ texture.present
    /\ Len(texture.pixels) > 1

\* C17: a save before any successful load returns "No image loaded" and hands
\* nothing to the encoder, and no save step changes the retained image or
\* the texture.
C17_SaveWithoutImage ==
    /\ [] ((pc = "s_done" /\ ~lastOk.present) =>
             (saveResult = "No image loaded" /\ ~encoded.present))
    /\ [][(pc = "idle" /\ pc' = "s_done") =>
             (image_data' = image_data /\ texture' = texture)]_vars
    /\ [][pc = "s_done" => (image_data' = image_data /\ texture' = texture)]_vars
C17_Witness ==
    /\ pc = "s_done"
    /\ ~lastOk.present
    /\ saveResult = "No image loaded"

\* the engine image a successful decode took its result from
SourceImage ==
    IF pc = "d_ret" /\ processed_thumb.ptr # NULL THEN processed_thumb ELSE processed_image

\* C18: a decode (decoder.rs or main.rs) never returns success for an engine
\* image whose width, height or data_size is negative.
C18_NegativeFieldsRejected ==
    (pc \in {"d_ret", "m_ret"} /\ result.ok) =>
        /\ SourceImage.width >= 0
        /\ SourceImage.height >= 0
        /\ SourceImage.data_size >= 0
====
